---- MODULE Spec2Model ----
(***************************************************************************)
(* File I/O layer of basis_set_exchange (basis_set_exchange/fileio.py).    *)
(*                                                                         *)
(* Text is a sequence of Unicode code points and file data a sequence of   *)
(* bytes, so that encoding, compression, serialization and parsing are     *)
(* computed rather than assumed.                                           *)
(***************************************************************************)
EXTENDS Integers, Sequences, FiniteSets, TLC

VARIABLES
    locale,   \* default text encoding of the process (open()/bz2.open() without encoding=)
    fs,       \* the filesystem: path -> [kind, data]
    wr,       \* the write call in progress, if any
    last,     \* history: per path, the last write call and how it ended
    ret,      \* the most recent step: the call, what it observed, what it returned
    tree,     \* get_all_filelist: the files under data_dir, as <<directory, basename>>
    walk      \* get_all_filelist: position of the walk and the four lists

vars == <<locale, fs, wr, last, ret, tree, walk>>

(***************************************************************************)
(* Bounds of the model.                                                    *)
(***************************************************************************)
\* Capacity of the buffered writer under codecs.open (io.DEFAULT_BUFFER_SIZE, scaled down).
BufSize == 8
\* Largest number of files in a dataset tree.
MaxFiles == 2

(***************************************************************************)
(* Strings.                                                                *)
(***************************************************************************)
\* 'molssi_bse_schema'
MARKER == <<109, 111, 108, 115, 115, 105, 95, 98, 115, 101, 95, 115, 99, 104, 101, 109, 97>>
\* '.bz2'
BZ2_SUFFIX == <<46, 98, 122, 50>>

\* str.endswith
endswith(s, suffix) ==
    /\ Len(s) >= Len(suffix)
    /\ SubSeq(s, Len(s) - Len(suffix) + 1, Len(s)) = suffix

\* needle in haystack, for two str
StrContains(hay, needle) ==
    \E i \in 1..(Len(hay) - Len(needle) + 1) : SubSeq(hay, i, i + Len(needle) - 1) = needle

IsPrefix(a, b) == Len(a) <= Len(b) /\ SubSeq(b, 1, Len(a)) = a

RECURSIVE Flatten(_)
Flatten(ss) == IF ss = <<>> THEN <<>> ELSE Head(ss) \o Flatten(Tail(ss))

(***************************************************************************)
(* Text encodings: the codecs Python applies when a file is opened in text *)
(* mode ('utf-8' when named, otherwise the locale's).                      *)
(***************************************************************************)
Encodings == {"utf-8", "latin-1", "ascii"}

Encodable(cp, enc) ==
    CASE enc = "utf-8"   -> cp < 55296 \/ cp > 57343
      [] enc = "latin-1" -> cp < 256
      [] enc = "ascii"   -> cp < 128

EncodeChar(cp, enc) ==
    IF enc # "utf-8" \/ cp < 128 THEN <<cp>>
    ELSE IF cp < 2048 THEN <<192 + (cp \div 64), 128 + (cp % 64)>>
    ELSE IF cp < 65536 THEN <<224 + (cp \div 4096), 128 + ((cp \div 64) % 64), 128 + (cp % 64)>>
    ELSE <<240 + (cp \div 262144), 128 + ((cp \div 4096) % 64),
           128 + ((cp \div 64) % 64), 128 + (cp % 64)>>

\* str.encode(enc), errors='strict': [ok, bytes]
RECURSIVE EncodeFrom(_, _, _, _)
EncodeFrom(text, i, enc, acc) ==
    IF i > Len(text) THEN [ok |-> TRUE, bytes |-> acc]
    ELSE IF ~Encodable(text[i], enc) THEN [ok |-> FALSE, bytes |-> acc]
    ELSE EncodeFrom(text, i + 1, enc, acc \o EncodeChar(text[i], enc))

Encode(text, enc) == EncodeFrom(text, 1, enc, <<>>)

IsCont(b, i) == i <= Len(b) /\ b[i] >= 128 /\ b[i] <= 191

\* bytes.decode('utf-8'), errors='strict': [ok, text]
RECURSIVE DecodeUtf8(_, _, _)
DecodeUtf8(b, i, acc) ==
    IF i > Len(b) THEN [ok |-> TRUE, text |-> acc]
    ELSE LET c == b[i] IN
      IF c < 128 THEN DecodeUtf8(b, i + 1, Append(acc, c))
      ELSE IF c >= 194 /\ c <= 223 /\ IsCont(b, i + 1)
        THEN DecodeUtf8(b, i + 2, Append(acc, (c - 192) * 64 + (b[i + 1] - 128)))
      ELSE IF /\ c >= 224 /\ c <= 239 /\ IsCont(b, i + 1) /\ IsCont(b, i + 2)
              /\ (c = 224 => b[i + 1] >= 160)
              /\ (c = 237 => b[i + 1] <= 159)
        THEN DecodeUtf8(b, i + 3,
                 Append(acc, (c - 224) * 4096 + (b[i + 1] - 128) * 64 + (b[i + 2] - 128)))
      ELSE IF /\ c >= 240 /\ c <= 244
              /\ IsCont(b, i + 1) /\ IsCont(b, i + 2) /\ IsCont(b, i + 3)
              /\ (c = 240 => b[i + 1] >= 144)
              /\ (c = 244 => b[i + 1] <= 143)
        THEN DecodeUtf8(b, i + 4,
                 Append(acc, (c - 240) * 262144 + (b[i + 1] - 128) * 4096
                             + (b[i + 2] - 128) * 64 + (b[i + 3] - 128)))
      ELSE [ok |-> FALSE, text |-> acc]

\* bytes.decode(enc), errors='strict': [ok, text]
Decode(b, enc) ==
    CASE enc = "utf-8"   -> DecodeUtf8(b, 1, <<>>)
      [] enc = "latin-1" -> [ok |-> TRUE, text |-> b]
      [] enc = "ascii"   -> [ok |-> \A i \in 1..Len(b) : b[i] < 128, text |-> b]

\* Universal newlines of a text-mode read (newline=None): '\r\n' and '\r' become '\n'.
RECURSIVE TranslateNewlines(_, _, _)
TranslateNewlines(t, i, acc) ==
    IF i > Len(t) THEN acc
    ELSE IF t[i] = 13
      THEN TranslateNewlines(t, IF i < Len(t) /\ t[i + 1] = 10 THEN i + 2 ELSE i + 1,
                             Append(acc, 10))
    ELSE TranslateNewlines(t, i + 1, Append(acc, t[i]))

\* f.read() on a text-mode file over the bytes b: [ok, text]
ReadText(b, enc) ==
    LET d == Decode(b, enc)
    IN  IF d.ok THEN [ok |-> TRUE, text |-> TranslateNewlines(d.text, 1, <<>>)] ELSE d

(***************************************************************************)
(* bz2 streams, as far as the layer can tell them apart: a stream opens    *)
(* with the magic 'BZh9', closes with the end-of-stream magic, and its     *)
(* payload is not the plain data.                                          *)
(***************************************************************************)
BZ2_MAGIC == <<66, 90, 104, 57>>
BZ2_EOS == <<23, 114, 69, 56, 80, 144>>

Bz2Compress(data) == BZ2_MAGIC \o [i \in 1..Len(data) |-> 255 - data[i]] \o BZ2_EOS

\* Reading a BZ2File to the end: [err, data], err one of "none", "OSError"
\* (invalid data stream), "EOFError" (ended before the end-of-stream marker).
Bz2Decompress(raw) ==
    IF Len(raw) < Len(BZ2_MAGIC)
    THEN [err |-> IF IsPrefix(raw, BZ2_MAGIC) THEN "EOFError" ELSE "OSError", data |-> <<>>]
    ELSE IF ~IsPrefix(BZ2_MAGIC, raw) THEN [err |-> "OSError", data |-> <<>>]
    ELSE IF Len(raw) < Len(BZ2_MAGIC) + Len(BZ2_EOS) \/ ~endswith(raw, BZ2_EOS)
      THEN [err |-> "EOFError", data |-> <<>>]
    ELSE LET body == SubSeq(raw, Len(BZ2_MAGIC) + 1, Len(raw) - Len(BZ2_EOS))
         IN  [err |-> "none", data |-> [i \in 1..Len(body) |-> 255 - body[i]]]

(***************************************************************************)
(* JSON documents as Python holds them.  A dict is the sequence of its     *)
(* <<key, value>> items in insertion order, keys distinct.                 *)
(***************************************************************************)
JNull == [t |-> "null", n |-> 0, s |-> <<>>]
JBool(b) == [t |-> "bool", n |-> IF b THEN 1 ELSE 0, s |-> <<>>]
JInt(n) == [t |-> "int", n |-> n, s |-> <<>>]
JStr(s) == [t |-> "str", n |-> 0, s |-> s]
JList(items) == [t |-> "list", n |-> 0, s |-> items]
JDict(items) == [t |-> "dict", n |-> 0, s |-> items]

Keys(d) == {d.s[i][1] : i \in 1..Len(d.s)}
Get(d, k) == d.s[CHOOSE i \in 1..Len(d.s) : d.s[i][1] = k][2]

\* d[k] = v on the item sequence of a dict: a new key goes last, a known key keeps its place.
DictSet(items, k, v) ==
    IF \E i \in 1..Len(items) : items[i][1] = k
    THEN [i \in 1..Len(items) |-> IF items[i][1] = k THEN <<k, v>> ELSE items[i]]
    ELSE Append(items, <<k, v>>)

\* Python's ==  on documents: dicts compare as mappings, True == 1.
RECURSIVE PyEq(_, _)
PyEq(a, b) ==
    CASE a.t \in {"int", "bool"} -> b.t \in {"int", "bool"} /\ a.n = b.n
      [] a.t = "null" -> b.t = "null"
      [] a.t = "str"  -> b.t = "str" /\ a.s = b.s
      [] a.t = "list" -> /\ b.t = "list"
                         /\ Len(a.s) = Len(b.s)
                         /\ \A i \in 1..Len(a.s) : PyEq(a.s[i], b.s[i])
      [] a.t = "dict" -> /\ b.t = "dict"
                         /\ Keys(a) = Keys(b)
                         /\ \A k \in Keys(a) : PyEq(Get(a, k), Get(b, k))

\* key in js: "yes", "no", or "TypeError" when js is not a container.
PyIn(key, js) ==
    CASE js.t = "dict" -> IF key \in Keys(js) THEN "yes" ELSE "no"
      [] js.t = "list" -> IF \E i \in 1..Len(js.s) : PyEq(js.s[i], JStr(key))
                          THEN "yes" ELSE "no"
      [] js.t = "str"  -> IF StrContains(js.s, key) THEN "yes" ELSE "no"
      [] OTHER -> "TypeError"

(***************************************************************************)
(* json.dump(js, f, indent=2, ensure_ascii=False): the serializer writes   *)
(* the chunks of iterencode to f one by one.                               *)
(***************************************************************************)
RECURSIVE Digits(_)
Digits(n) == IF n < 10 THEN <<48 + n>> ELSE Append(Digits(n \div 10), 48 + (n % 10))

\* int.__repr__
IntRepr(n) == IF n < 0 THEN <<45>> \o Digits(-n) ELSE Digits(n)

HexDigit(h) == IF h < 10 THEN 48 + h ELSE 87 + h

\* One character of a string literal (ESCAPE_DCT of json.encoder; non-ASCII is kept).
EscapeChar(c) ==
    CASE c = 34 -> <<92, 34>>
      [] c = 92 -> <<92, 92>>
      [] c = 10 -> <<92, 110>>
      [] c = 13 -> <<92, 114>>
      [] c = 9  -> <<92, 116>>
      [] c = 8  -> <<92, 98>>
      [] c = 12 -> <<92, 102>>
      [] c < 32 -> <<92, 117, 48, 48, HexDigit(c \div 16), HexDigit(c % 16)>>
      [] OTHER  -> <<c>>

\* py_encode_basestring
encode_basestring(s) == <<34>> \o Flatten([i \in 1..Len(s) |-> EscapeChar(s[i])]) \o <<34>>

NewlineIndent(level) == <<10>> \o [i \in 1..(2 * level) |-> 32]

IsScalar(o) == o.t \in {"null", "bool", "int", "str"}

ScalarText(o) ==
    CASE o.t = "str"  -> encode_basestring(o.s)
      [] o.t = "null" -> <<110, 117, 108, 108>>
      [] o.t = "bool" -> IF o.n = 1 THEN <<116, 114, 117, 101>> ELSE <<102, 97, 108, 115, 101>>
      [] o.t = "int"  -> IntRepr(o.n)

RECURSIVE iterencode(_, _)
RECURSIVE ListChunks(_, _, _, _)
RECURSIVE DictChunks(_, _, _)

\* The loop of _iterencode_list: buf is '[' + newline_indent, then the separator.
ListChunks(lst, i, level, buf) ==
    IF i > Len(lst) THEN <<>>
    ELSE (IF IsScalar(lst[i]) THEN <<buf \o ScalarText(lst[i])>>
          ELSE <<buf>> \o iterencode(lst[i], level))
         \o ListChunks(lst, i + 1, level, <<44>> \o NewlineIndent(level))

\* The loop of _iterencode_dict.
DictChunks(dct, i, level) ==
    IF i > Len(dct) THEN <<>>
    ELSE (IF i = 1 THEN <<>> ELSE << <<44>> \o NewlineIndent(level) >>)
         \o <<encode_basestring(dct[i][1]), <<58, 32>>>>
         \o (IF IsScalar(dct[i][2]) THEN <<ScalarText(dct[i][2])>>
             ELSE iterencode(dct[i][2], level))
         \o DictChunks(dct, i + 1, level)

\* _iterencode(o, _current_indent_level): the sequence of chunks.
iterencode(o, level) ==
    CASE IsScalar(o) -> <<ScalarText(o)>>
      [] o.t = "list" ->
            IF o.s = <<>> THEN << <<91, 93>> >>
            ELSE ListChunks(o.s, 1, level + 1, <<91>> \o NewlineIndent(level + 1))
                 \o <<NewlineIndent(level), <<93>>>>
      [] o.t = "dict" ->
            IF o.s = <<>> THEN << <<123, 125>> >>
            ELSE <<<<123>>, NewlineIndent(level + 1)>>
                 \o DictChunks(o.s, 1, level + 1)
                 \o <<NewlineIndent(level), <<125>>>>

\* json.dumps(js, indent=2, ensure_ascii=False): the text a complete dump writes.
dumps(js) == Flatten(iterencode(js, 0))

(***************************************************************************)
(* json.load(f): json.loads(f.read()), the decoder of json.decoder and     *)
(* json.scanner.  A parse step returns [ok, v, i]: i is the index after    *)
(* what was read; ok = FALSE is JSONDecodeError.  Numbers are integers:    *)
(* fractions, exponents, NaN and Infinity are not in the modelled texts.   *)
(***************************************************************************)
ParseFail == [ok |-> FALSE, v |-> JNull, i |-> 0]

IsWs(c) == c \in {32, 9, 10, 13}

RECURSIVE SkipWs(_, _)
SkipWs(s, i) == IF i <= Len(s) /\ IsWs(s[i]) THEN SkipWs(s, i + 1) ELSE i

IsDigit(c) == c >= 48 /\ c <= 57
HexVal(c) ==
    IF IsDigit(c) THEN c - 48
    ELSE IF c >= 97 /\ c <= 102 THEN c - 87
    ELSE IF c >= 65 /\ c <= 70 THEN c - 55
    ELSE -1

\* py_scanstring, strict: i is the index after the opening quote.
RECURSIVE scanstring(_, _, _)
scanstring(s, i, acc) ==
    IF i > Len(s) THEN ParseFail
    ELSE IF s[i] = 34 THEN [ok |-> TRUE, v |-> acc, i |-> i + 1]
    ELSE IF s[i] < 32 THEN ParseFail
    ELSE IF s[i] # 92 THEN scanstring(s, i + 1, Append(acc, s[i]))
    ELSE IF i + 1 > Len(s) THEN ParseFail
    ELSE LET e == s[i + 1] IN
      IF e \in {34, 92, 47} THEN scanstring(s, i + 2, Append(acc, e))
      ELSE IF e = 98  THEN scanstring(s, i + 2, Append(acc, 8))
      ELSE IF e = 102 THEN scanstring(s, i + 2, Append(acc, 12))
      ELSE IF e = 110 THEN scanstring(s, i + 2, Append(acc, 10))
      ELSE IF e = 114 THEN scanstring(s, i + 2, Append(acc, 13))
      ELSE IF e = 116 THEN scanstring(s, i + 2, Append(acc, 9))
      ELSE IF /\ e = 117 /\ i + 5 <= Len(s)
              /\ \A k \in 2..5 : HexVal(s[i + k]) >= 0
        THEN scanstring(s, i + 6,
                 Append(acc, HexVal(s[i + 2]) * 4096 + HexVal(s[i + 3]) * 256
                             + HexVal(s[i + 4]) * 16 + HexVal(s[i + 5])))
      ELSE ParseFail

RECURSIVE ScanDigits(_, _, _)
ScanDigits(s, i, acc) ==
    IF i <= Len(s) /\ IsDigit(s[i]) THEN ScanDigits(s, i + 1, acc * 10 + (s[i] - 48))
    ELSE [ok |-> TRUE, v |-> acc, i |-> i]

\* NUMBER_RE of json.scanner, integer part: -?(0|[1-9][0-9]*)
ScanInt(s, i) ==
    LET neg == s[i] = 45
        j   == IF neg THEN i + 1 ELSE i
    IN  IF j > Len(s) \/ ~IsDigit(s[j]) THEN ParseFail
        ELSE LET m == IF s[j] = 48 THEN [ok |-> TRUE, v |-> 0, i |-> j + 1]
                      ELSE ScanDigits(s, j, 0)
             IN  [ok |-> TRUE, v |-> JInt(IF neg THEN -m.v ELSE m.v), i |-> m.i]

Literal(s, i, word) == i + Len(word) - 1 <= Len(s) /\ SubSeq(s, i, i + Len(word) - 1) = word

RECURSIVE scan_once(_, _)
RECURSIVE ObjectLoop(_, _, _)
RECURSIVE ArrayLoop(_, _, _)

\* The loop of JSONObject: i is the index after the opening quote of a key.
ObjectLoop(s, i, items) ==
    LET key == scanstring(s, i, <<>>) IN
    IF ~key.ok THEN ParseFail ELSE
    LET c == SkipWs(s, key.i) IN
    IF c > Len(s) \/ s[c] # 58 THEN ParseFail ELSE
    LET val == scan_once(s, SkipWs(s, c + 1)) IN
    IF ~val.ok THEN ParseFail ELSE
    LET e    == SkipWs(s, val.i)
        more == DictSet(items, key.v, val.v)
    IN  IF e > Len(s) THEN ParseFail
        ELSE IF s[e] = 125 THEN [ok |-> TRUE, v |-> JDict(more), i |-> e + 1]
        ELSE IF s[e] # 44 THEN ParseFail
        ELSE LET q == SkipWs(s, e + 1)
             IN  IF q > Len(s) \/ s[q] # 34 THEN ParseFail
                 ELSE ObjectLoop(s, q + 1, more)

\* The loop of JSONArray: i is the index of the next value.
ArrayLoop(s, i, items) ==
    LET val == scan_once(s, i) IN
    IF ~val.ok THEN ParseFail ELSE
    LET e    == SkipWs(s, val.i)
        more == Append(items, val.v)
    IN  IF e > Len(s) THEN ParseFail
        ELSE IF s[e] = 93 THEN [ok |-> TRUE, v |-> JList(more), i |-> e + 1]
        ELSE IF s[e] # 44 THEN ParseFail
        ELSE ArrayLoop(s, SkipWs(s, e + 1), more)

\* _scan_once(string, idx)
scan_once(s, i) ==
    IF i > Len(s) THEN ParseFail
    ELSE LET c == s[i] IN
      IF c = 34 THEN
          LET str == scanstring(s, i + 1, <<>>)
          IN  IF str.ok THEN [ok |-> TRUE, v |-> JStr(str.v), i |-> str.i] ELSE ParseFail
      ELSE IF c = 123 THEN
          LET j == SkipWs(s, i + 1)
          IN  IF j > Len(s) THEN ParseFail
              ELSE IF s[j] = 125 THEN [ok |-> TRUE, v |-> JDict(<<>>), i |-> j + 1]
              ELSE IF s[j] # 34 THEN ParseFail
              ELSE ObjectLoop(s, j + 1, <<>>)
      ELSE IF c = 91 THEN
          LET j == SkipWs(s, i + 1)
          IN  IF j <= Len(s) /\ s[j] = 93 THEN [ok |-> TRUE, v |-> JList(<<>>), i |-> j + 1]
              ELSE ArrayLoop(s, j, <<>>)
      ELSE IF Literal(s, i, <<110, 117, 108, 108>>)
        THEN [ok |-> TRUE, v |-> JNull, i |-> i + 4]
      ELSE IF Literal(s, i, <<116, 114, 117, 101>>)
        THEN [ok |-> TRUE, v |-> JBool(TRUE), i |-> i + 4]
      ELSE IF Literal(s, i, <<102, 97, 108, 115, 101>>)
        THEN [ok |-> TRUE, v |-> JBool(FALSE), i |-> i + 5]
      ELSE IF c = 45 \/ IsDigit(c) THEN ScanInt(s, i)
      ELSE ParseFail

\* json.loads(s): JSONDecoder.decode; ok = FALSE is JSONDecodeError.
loads(s) ==
    LET val == scan_once(s, SkipWs(s, 1))
    IN  IF ~val.ok THEN [ok |-> FALSE, v |-> JNull]
        ELSE IF SkipWs(s, val.i) # Len(s) + 1 THEN [ok |-> FALSE, v |-> JNull]
        ELSE [ok |-> TRUE, v |-> val.v]

(***************************************************************************)
(* The sort collaborators (basis_set_exchange/sort.py): a deterministic    *)
(* reordering of the keys of a document, nested documents included.        *)
(***************************************************************************)
RECURSIVE StrLess(_, _)
StrLess(a, b) ==
    IF b = <<>> THEN FALSE
    ELSE IF a = <<>> THEN TRUE
    ELSE IF Head(a) # Head(b) THEN Head(a) < Head(b)
    ELSE StrLess(Tail(a), Tail(b))

\* The marker key first, then by code point.
BasisKeyLess(a, b) == a # b /\ (a = MARKER \/ (b # MARKER /\ StrLess(a, b)))

RECURSIVE InsertItem(_, _, _)
InsertItem(items, it, basis) ==
    IF items = <<>> THEN <<it>>
    ELSE IF (IF basis THEN BasisKeyLess(it[1], Head(items)[1]) ELSE StrLess(it[1], Head(items)[1]))
      THEN <<it>> \o items
    ELSE <<Head(items)>> \o InsertItem(Tail(items), it, basis)

RECURSIVE SortItems(_, _)
SortItems(items, basis) ==
    IF items = <<>> THEN <<>>
    ELSE InsertItem(SortItems(Tail(items), basis), Head(items), basis)

RECURSIVE SortDoc(_, _)
SortDoc(o, basis) ==
    CASE o.t = "dict" ->
            JDict(SortItems([i \in 1..Len(o.s) |-> <<o.s[i][1], SortDoc(o.s[i][2], basis)>>], basis))
      [] o.t = "list" -> JList([i \in 1..Len(o.s) |-> SortDoc(o.s[i], basis)])
      [] OTHER -> o

sort_basis_dict(bs) == SortDoc(bs, TRUE)
sort_references_dict(refs) == SortDoc(refs, FALSE)

(***************************************************************************)
(* Files and calls.                                                        *)
(***************************************************************************)
\* 'p' and 'p.bz2': two paths that differ only by the compressed-file suffix.
PLAIN_PATH == <<112>>
BZ2_PATH == PLAIN_PATH \o BZ2_SUFFIX
Paths == {PLAIN_PATH, BZ2_PATH}

Absent == [kind |-> "absent", data |-> <<>>]
Directory == [kind |-> "dir", data |-> <<>>]
File(data) == [kind |-> "file", data |-> data]

\* os.path.exists, in place of os.path.isfile: a directory passes
isfile_exists(file_path) == fs[file_path].kind # "absent"

\* os.path.isfile
isfile(file_path) == fs[file_path].kind = "file"

ReadOps == {"read_json_basis", "read_schema", "read_references", "read_metadata"}
WriteOps == {"write_json_basis", "write_references"}

\* How a call ends: a returned value (a document, a str or None) or a raised exception,
\* with the format and argument of its message and its __cause__.
Returned(kind, val, text) ==
    [exc |-> "none", fmt |-> "", arg |-> <<>>, cause |-> "none",
     kind |-> kind, val |-> val, text |-> text]
Raised(exc, fmt, arg, cause) ==
    [exc |-> exc, fmt |-> fmt, arg |-> arg, cause |-> cause,
     kind |-> "none", val |-> JNull, text |-> <<>>]
\* The call has not returned yet, or did not get to.
Running == Raised("-", "", <<>>, "none")

NoCall == [op |-> "none", path |-> <<>>, out |-> Running]

\* raise RuntimeError(...) without 'from ex': the parse error is not chained
JsonErrorUnchained(file_path) ==
    Raised("RuntimeError", "File {} contains JSON errors", file_path, "none")

\* except json.decoder.JSONDecodeError as ex: raise RuntimeError(...) from ex
JsonError(file_path) ==
    Raised("RuntimeError", "File {} contains JSON errors", file_path, "JSONDecodeError")

\* _read_plain_json(file_path, check_bse), on the current filesystem
_read_plain_json(file_path, check_bse) ==
    IF ~isfile(file_path)
    THEN Raised("FileNotFoundError",
                "JSON file '{}' does not exist, is not readable, or is not a file",
                file_path, "none")
    ELSE
    LET raw == IF endswith(file_path, BZ2_SUFFIX) THEN Bz2Decompress(fs[file_path].data)
               ELSE [err |-> "none", data |-> fs[file_path].data]
    IN  IF raw.err # "none" THEN Raised(raw.err, "", <<>>, "none") ELSE
    LET f == ReadText(raw.data, locale)
    IN  IF ~f.ok THEN Raised("UnicodeDecodeError", "", <<>>, "none") ELSE
    LET js == loads(f.text)
    IN  IF ~js.ok
        THEN JsonError(file_path)
        ELSE IF check_bse /\ PyIn(MARKER, js.v) = "TypeError"
        THEN Raised("TypeError", "", <<>>, "none")
        ELSE IF check_bse /\ PyIn(MARKER, js.v) = "no"
        THEN Raised("RuntimeError", "File {} does not appear to be a BSE JSON file",
                    file_path, "none")
        ELSE Returned("doc", js.v, <<>>)

\* The marker flag each read entry point passes.
check_bse_of(op) == op \in {"read_json_basis", "read_references"}

ReadCall(op, file_path) ==
    /\ ret' = [op |-> op, path |-> file_path, out |-> _read_plain_json(file_path, check_bse_of(op))]
    /\ UNCHANGED <<locale, fs, wr, last, tree, walk>>

read_json_basis(file_path) == ReadCall("read_json_basis", file_path)
read_schema(file_path) == ReadCall("read_schema", file_path)
read_references(file_path) == ReadCall("read_references", file_path)
read_metadata(file_path) == ReadCall("read_metadata", file_path)

\* The bytes read, were the notes reader to decompress as the JSON reader does
NotesBytesDecompressed(file_path) ==
    IF endswith(file_path, BZ2_SUFFIX) THEN Bz2Decompress(fs[file_path].data).data
    ELSE fs[file_path].data

\* open(file_path, 'r'): the bytes the text file is read from
NotesBytes(file_path) == fs[file_path].data

\* read_notes_file(file_path)
read_notes_file(file_path) ==
    /\ ret' = [op |-> "read_notes_file", path |-> file_path,
               out |-> IF ~isfile(file_path) THEN Returned("None", JNull, <<>>)
                       ELSE LET f == ReadText(NotesBytes(file_path), locale)
                            IN  IF f.ok THEN Returned("str", JNull, f.text)
                                ELSE Raised("UnicodeDecodeError", "", <<>>, "none")]
    /\ UNCHANGED <<locale, fs, wr, last, tree, walk>>

(***************************************************************************)
(* Writing.  A write call is three kinds of step: the entry point sorts    *)
(* the document and opens the destination, json.dump writes the chunks,    *)
(* and leaving the with block closes the file.                             *)
(***************************************************************************)
NoWrite == [phase |-> "idle", op |-> "", path |-> <<>>, chunks |-> <<>>, buf |-> <<>>]
NoHistory == [state |-> "none", op |-> "", doc |-> JNull]

\* Opening without truncating, as a write through a temporary file would leave the
\* destination: what it held stays until the new content is complete.
OpenForWriteKeeping(entry) == IF entry.kind = "file" THEN entry ELSE File(<<>>)

\* Opening the destination with mode 'w' (codecs.open) or 'wt' (bz2.open):
\* the file is created, or truncated in place.
OpenForWrite(entry) == File(<<>>)

\* The text encoding of the file object: 'utf-8' is named for the plain file only.
WriteEncoding(file_path) == IF endswith(file_path, BZ2_SUFFIX) THEN locale ELSE "utf-8"

\* f.write(b) on the buffered binary file under codecs.open: what reaches the file, what stays
\* buffered.  Under bz2.open everything stays in the compressor until the file is closed.
BufferedWrite(file_path, data, buf, b) ==
    IF endswith(file_path, BZ2_SUFFIX) \/ Len(buf) + Len(b) <= BufSize
    THEN [data |-> data, buf |-> buf \o b]
    ELSE IF Len(b) > BufSize THEN [data |-> data \o buf \o b, buf |-> <<>>]
    ELSE [data |-> data \o buf, buf |-> b]

\* f.close(): the buffer is flushed; a bz2 file receives its one compressed stream.
CloseFile(file_path, data, buf) ==
    IF endswith(file_path, BZ2_SUFFIX) THEN Bz2Compress(buf) ELSE data \o buf

\* json.dump: fp.write(chunk) for chunk after chunk, as far as the next moment bytes
\* reach the file ("flushed"), the end of the chunks ("done"), or a chunk the encoding
\* of the file cannot take ("error": UnicodeEncodeError).
RECURSIVE DumpRun(_, _, _, _, _)
DumpRun(file_path, enc, chunks, data, buf) ==
    IF chunks = <<>> THEN [status |-> "done", chunks |-> chunks, data |-> data, buf |-> buf]
    ELSE LET b == Encode(Head(chunks), enc) IN
      IF ~b.ok THEN [status |-> "error", chunks |-> chunks, data |-> data, buf |-> buf]
      ELSE LET w == BufferedWrite(file_path, data, buf, b.bytes) IN
        IF w.data # data
        THEN [status |-> "flushed", chunks |-> Tail(chunks), data |-> w.data, buf |-> w.buf]
        ELSE DumpRun(file_path, enc, Tail(chunks), data, w.buf)

\* _write_plain_json(file_path, js), up to the open file
WriteStart(op, file_path, doc, js) ==
    /\ wr.phase = "idle"
    /\ IF fs[file_path].kind = "dir"
       THEN /\ ret' = [op |-> op, path |-> file_path,
                       out |-> Raised("IsADirectoryError", "", <<>>, "none")]
            /\ last' = [last EXCEPT ![file_path] = [state |-> "failed", op |-> op, doc |-> doc]]
            /\ UNCHANGED <<fs, wr>>
       ELSE /\ fs' = [fs EXCEPT ![file_path] = OpenForWrite(@)]
            /\ wr' = [phase |-> "open", op |-> op, path |-> file_path,
                      chunks |-> iterencode(js, 0), buf |-> <<>>]
            /\ last' = [last EXCEPT ![file_path] = [state |-> "torn", op |-> op, doc |-> doc]]
            /\ ret' = [op |-> op, path |-> file_path, out |-> Running]
    /\ UNCHANGED <<locale, tree, walk>>

write_json_basis(file_path, bs) ==
    WriteStart("write_json_basis", file_path, bs, sort_basis_dict(bs))

write_references(file_path, refs) ==
    WriteStart("write_references", file_path, refs, sort_references_dict(refs))

\* _write_plain_json inside the with block: json.dump runs on; when it ends, or raises,
\* the with block closes the file and the call returns None, or raises.
json_dump ==
    /\ wr.phase = "open"
    /\ LET r == DumpRun(wr.path, WriteEncoding(wr.path), wr.chunks, fs[wr.path].data, wr.buf)
       IN  IF r.status = "flushed"
           THEN /\ fs' = [fs EXCEPT ![wr.path] = File(r.data)]
                /\ wr' = [wr EXCEPT !.chunks = r.chunks, !.buf = r.buf]
                /\ ret' = [op |-> wr.op, path |-> wr.path, out |-> Running]
                /\ UNCHANGED last
           ELSE /\ fs' = [fs EXCEPT ![wr.path] = File(CloseFile(wr.path, r.data, r.buf))]
                /\ wr' = NoWrite
                /\ ret' = [op |-> wr.op, path |-> wr.path,
                           out |-> IF r.status = "done" THEN Returned("None", JNull, <<>>)
                                   ELSE Raised("UnicodeEncodeError", "", <<>>, "none")]
                /\ last' = [last EXCEPT ![wr.path].state =
                                          IF r.status = "done" THEN "done" ELSE "failed"]
    /\ UNCHANGED <<locale, tree, walk>>

\* The process is stopped inside the with block: what was buffered is lost, the
\* destination keeps what had reached it.
Interrupt ==
    /\ wr.phase = "open"
    /\ wr' = NoWrite
    /\ ret' = [op |-> "interrupt", path |-> wr.path, out |-> Running]
    /\ UNCHANGED <<locale, fs, last, tree, walk>>

(***************************************************************************)
(* Documents handed to the write entry points.                             *)
(***************************************************************************)
\* {'molssi_bse_schema': 1}
DOC_MARKED == JDict(<< <<MARKER, JInt(1)>> >>)
\* {'n': 'é', 'molssi_bse_schema': 1}
DOC_NONASCII == JDict(<< <<<<110>>, JStr(<<233>>)>>, <<MARKER, JInt(1)>> >>)
\* {'a': [True, None]}: no marker key
DOC_UNMARKED == JDict(<< <<<<97>>, JList(<<JBool(TRUE), JNull>>)>> >>)
\* {'molssi_bse_schema': 0}: what a destination holds before the first call
DOC_OLD == JDict(<< <<MARKER, JInt(0)>> >>)

WriteDocs == <<DOC_MARKED, DOC_NONASCII, DOC_UNMARKED>>

\* The file format: UTF-8 text, 2-space indent, compressed under the '.bz2' suffix.
UTF8(text) == Encode(text, "utf-8").bytes
StoredForm(file_path, js) ==
    IF endswith(file_path, BZ2_SUFFIX) THEN Bz2Compress(UTF8(dumps(js))) ELSE UTF8(dumps(js))

NoWalk == [pc |-> "idle", todo |-> <<>>, files |-> {}, root |-> <<>>,
           all_meta |-> <<>>, all_table |-> <<>>, all_element |-> <<>>, all_component |-> <<>>]

InitWrite ==
    /\ locale \in Encodings
    /\ fs \in [Paths -> {Absent, Directory}]
          \cup {[p \in Paths |-> IF p \in S THEN File(StoredForm(p, DOC_OLD)) ELSE e] :
                    S \in (SUBSET Paths) \ {{}}, e \in {Absent, Directory}}
    /\ wr = NoWrite
    /\ last = [p \in Paths |-> NoHistory]
    /\ ret = NoCall
    /\ tree = {}
    /\ walk = NoWalk

NextWrite ==
    \/ \E p \in Paths, i \in 1..Len(WriteDocs) : write_json_basis(p, WriteDocs[i])
    \/ \E p \in Paths, i \in 1..Len(WriteDocs) : write_references(p, WriteDocs[i])
    \/ json_dump
    \/ Interrupt
    \/ \E p \in Paths : read_json_basis(p)
    \/ \E p \in Paths : read_references(p)

SpecWrite == InitWrite /\ [][NextWrite]_vars

(***************************************************************************)
(* Files found on disk by the read entry points.                           *)
(***************************************************************************)
\* {"molssi_bse_schema": 1}
T_MARKED == <<123, 34, 109, 111, 108, 115, 115, 105, 95, 98, 115, 101, 95, 115, 99, 104,
              101, 109, 97, 34, 58, 32, 49, 125>>
\* {"n": "é", "molssi_bse_schema": null}
T_MARKED_NULL == <<123, 34, 110, 34, 58, 32, 34, 233, 34, 44, 32, 34, 109, 111, 108, 115,
                   115, 105, 95, 98, 115, 101, 95, 115, 99, 104, 101, 109, 97, 34, 58, 32,
                   110, 117, 108, 108, 125>>
\* {"a": 1}
T_UNMARKED == <<123, 34, 97, 34, 58, 32, 49, 125>>
\* {"a": "é"}
T_UNMARKED_NONASCII == <<123, 34, 97, 34, 58, 32, 34, 233, 34, 125>>
\* {"a": {"molssi_bse_schema": 1}}
T_NESTED == <<123, 34, 97, 34, 58, 32, 123, 34, 109, 111, 108, 115, 115, 105, 95, 98, 115,
              101, 95, 115, 99, 104, 101, 109, 97, 34, 58, 32, 49, 125, 125>>
\* ["molssi_bse_schema"]
T_LIST_OF_NAME == <<91, 34, 109, 111, 108, 115, 115, 105, 95, 98, 115, 101, 95, 115, 99,
                    104, 101, 109, 97, 34, 93>>
\* [1]
T_LIST == <<91, 49, 93>>
\* "molssi_bse_schema"
T_STR_OF_NAME == <<34, 109, 111, 108, 115, 115, 105, 95, 98, 115, 101, 95, 115, 99, 104,
                   101, 109, 97, 34>>
\* 7
T_NUMBER == <<55>>
\* {"a":            (cut short)
T_CUT == <<123, 34, 97, 34, 58, 32>>
\* {"é              (cut short)
T_CUT_NONASCII == <<123, 34, 233>>
\* hi\r\nyou
T_CRLF == <<104, 105, 13, 10, 121, 111, 117>>
\* hello
T_HELLO == <<104, 101, 108, 108, 111>>

SampleTexts == {T_MARKED, T_MARKED_NULL, T_UNMARKED, T_UNMARKED_NONASCII, T_NESTED,
                T_LIST_OF_NAME, T_LIST, T_STR_OF_NAME, T_NUMBER, T_CUT, T_CUT_NONASCII,
                T_CRLF, T_HELLO, <<>>}

\* What a path may hold: the sample texts stored as the suffix asks, bytes that are no
\* UTF-8, and content stored against the suffix.
SampleData(file_path) ==
    IF endswith(file_path, BZ2_SUFFIX)
    THEN {Bz2Compress(UTF8(t)) : t \in SampleTexts}
         \cup {Bz2Compress(<<255>>), UTF8(T_MARKED), BZ2_MAGIC, <<>>}
    ELSE {UTF8(t) : t \in SampleTexts} \cup {<<255>>, Bz2Compress(UTF8(T_MARKED))}

InitRead ==
    /\ locale \in Encodings
    /\ fs \in {f \in [Paths -> {Absent, Directory}
                               \cup {File(b) : b \in UNION {SampleData(p) : p \in Paths}}] :
                 \A p \in Paths : f[p].kind = "file" => f[p].data \in SampleData(p)}
    /\ wr = NoWrite
    /\ last = [p \in Paths |-> NoHistory]
    /\ ret = NoCall
    /\ tree = {}
    /\ walk = NoWalk

NextRead ==
    \/ \E p \in Paths : read_json_basis(p)
    \/ \E p \in Paths : read_schema(p)
    \/ \E p \in Paths : read_references(p)
    \/ \E p \in Paths : read_metadata(p)
    \/ \E p \in Paths : read_notes_file(p)

SpecRead == InitRead /\ [][NextRead]_vars

(***************************************************************************)
(* What the specification calls things.                                    *)
(***************************************************************************)
\* NotFoundError, MalformedDataError, SchemaMismatchError
IsNotFound(out) == out.exc = "FileNotFoundError"
IsMalformed(out) == out.exc = "RuntimeError" /\ out.fmt = "File {} contains JSON errors"
IsSchemaMismatch(out) ==
    out.exc = "RuntimeError" /\ out.fmt = "File {} does not appear to be a BSE JSON file"

\* The text a file holds under the file format: UTF-8, compressed under the '.bz2' suffix.
FormatText(file_path) ==
    LET raw == IF endswith(file_path, BZ2_SUFFIX) THEN Bz2Decompress(fs[file_path].data)
               ELSE [err |-> "none", data |-> fs[file_path].data]
    IN  IF raw.err # "none" THEN [ok |-> FALSE, text |-> <<>>] ELSE Decode(raw.data, "utf-8")

\* An existing regular file that holds valid JSON, and the document it holds.
HoldsJSON(file_path) ==
    /\ fs[file_path].kind = "file"
    /\ FormatText(file_path).ok
    /\ loads(FormatText(file_path).text).ok
HeldDoc(file_path) == loads(FormatText(file_path).text).v

HasMarkerKey(js) == js.t = "dict" /\ MARKER \in Keys(js)

\* The text the reader itself gets to parse: decompressed under the suffix, decoded in the
\* encoding of the process, newlines translated.
ReaderText(file_path) ==
    LET raw == IF endswith(file_path, BZ2_SUFFIX) THEN Bz2Decompress(fs[file_path].data)
               ELSE [err |-> "none", data |-> fs[file_path].data]
    IN  IF raw.err # "none" THEN [ok |-> FALSE, text |-> <<>>] ELSE ReadText(raw.data, locale)

(***************************************************************************)
(* Claims on reading (SpecRead).                                           *)
(***************************************************************************)
\* C1 (as claimed; violated): on an existing regular file that holds valid JSON without
\* the 'molssi_bse_schema' key, read_schema and read_metadata return the parsed document,
\* and read_json_basis and read_references fail with SchemaMismatchError.
C1_UnmarkedSplitsEntryPoints ==
    (ret.op \in ReadOps /\ HoldsJSON(ret.path) /\ ~HasMarkerKey(HeldDoc(ret.path)))
        => IF check_bse_of(ret.op) THEN IsSchemaMismatch(ret.out)
           ELSE ret.out.exc = "none" /\ PyEq(ret.out.val, HeldDoc(ret.path))

\* C2 (as claimed; violated): on an existing regular file that holds valid JSON with the
\* 'molssi_bse_schema' key present, whatever its value, each of the four read entry points
\* succeeds and returns the document the file holds.
C2_MarkedReadsEverywhere ==
    (ret.op \in ReadOps /\ HoldsJSON(ret.path) /\ HasMarkerKey(HeldDoc(ret.path)))
        => ret.out.exc = "none" /\ PyEq(ret.out.val, HeldDoc(ret.path))

\* C3: on a path that is no existing regular file (missing, or a directory), each of the
\* four read entry points fails with NotFoundError naming the path, with or without the
\* marker flag and the '.bz2' suffix: nothing is decompressed, parsed or checked before.
C3_NotFoundFirst ==
    (ret.op \in ReadOps /\ fs[ret.path].kind # "file")
        => IsNotFound(ret.out) /\ ret.out.arg = ret.path

\* C3 witness: read_json_basis on a '.bz2' path that is a directory has raised NotFoundError.
C3_Witness ==
    /\ ret.op = "read_json_basis"
    /\ ret.path = BZ2_PATH
    /\ fs[BZ2_PATH].kind = "dir"
    /\ IsNotFound(ret.out)

\* C4 (as claimed; violated): on an existing regular file whose content is not valid JSON,
\* every read entry point fails with MalformedDataError carrying the path and the parse
\* error as its cause.
C4_Original ==
    (ret.op \in ReadOps /\ fs[ret.path].kind = "file" /\ ~HoldsJSON(ret.path))
        => /\ IsMalformed(ret.out)
           /\ ret.out.arg = ret.path
           /\ ret.out.cause = "JSONDecodeError"

\* C4 (amended): on an existing regular file, when the text the reader obtains
\* (decompressed under '.bz2', decoded) is rejected by the JSON parser, every read entry
\* point fails with MalformedDataError carrying the path and the parse error as its
\* cause, marker flag or not; when the reader obtains no text, the error of the
\* decompression (OSError, EOFError) or of the decoding (UnicodeDecodeError) is raised
\* as it is.  Neither case is a SchemaMismatchError or a returned document.
C4_ParseErrorWrapped ==
    (ret.op \in ReadOps /\ fs[ret.path].kind = "file")
        => /\ (ReaderText(ret.path).ok /\ ~loads(ReaderText(ret.path).text).ok)
                 => /\ IsMalformed(ret.out)
                    /\ ret.out.arg = ret.path
                    /\ ret.out.cause = "JSONDecodeError"
           /\ ~ReaderText(ret.path).ok
                 => /\ ret.out.exc \in {"OSError", "EOFError", "UnicodeDecodeError"}
                    /\ ret.out.cause = "none"

\* C4 witness: read_json_basis (marker flag set) on a file cut short has raised
\* MalformedDataError with the parse error as its cause.
C4_Witness ==
    /\ ret.op = "read_json_basis"
    /\ ret.path = PLAIN_PATH
    /\ fs[PLAIN_PATH] = File(UTF8(T_CUT))
    /\ IsMalformed(ret.out)
    /\ ret.out.cause = "JSONDecodeError"

\* The text content of a file (UTF-8), when it has one.
Utf8Text(file_path) == Decode(fs[file_path].data, "utf-8")

\* C8 (as claimed; violated): the notes reader returns None, raising nothing, exactly when
\* the path is no existing regular file; on an existing regular file it returns the text
\* content of the file unmodified, never decompressed.
C8_Original ==
    ret.op = "read_notes_file"
        => /\ ret.out.exc = "none"
           /\ (ret.out.kind = "None") = (fs[ret.path].kind # "file")
           /\ (fs[ret.path].kind = "file" /\ Utf8Text(ret.path).ok)
                 => ret.out.kind = "str" /\ ret.out.text = Utf8Text(ret.path).text

\* C8 (amended): the notes reader returns None, raising nothing, exactly when the path is
\* no existing regular file; on an existing regular file whose bytes decode in the text
\* encoding of the process it returns them decoded, each '\r\n' and '\r' turned into
\* '\n', and never decompressed; when they do not decode, UnicodeDecodeError is raised.
C8_NotesReader ==
    ret.op = "read_notes_file"
        => /\ (ret.out.kind = "None") = (fs[ret.path].kind # "file")
           /\ fs[ret.path].kind # "file" => ret.out.exc = "none"
           /\ (fs[ret.path].kind = "file" /\ Decode(fs[ret.path].data, locale).ok)
                 => /\ ret.out.kind = "str"
                    /\ ret.out.text =
                         TranslateNewlines(Decode(fs[ret.path].data, locale).text, 1, <<>>)
           /\ (fs[ret.path].kind = "file" /\ ~Decode(fs[ret.path].data, locale).ok)
                 => ret.out.exc = "UnicodeDecodeError"

\* C8 witness: the notes reader has returned 'hi\nyou' for a file holding 'hi\r\nyou'.
C8_Witness ==
    /\ ret.op = "read_notes_file"
    /\ fs[ret.path] = File(UTF8(T_CRLF))
    /\ ret.out.kind = "str"
    /\ ret.out.text = <<104, 105, 10, 121, 111, 117>>

(***************************************************************************)
(* Claims on writing (SpecWrite).                                          *)
(***************************************************************************)
\* The sort transform of a write entry point.
SortOf(op, doc) ==
    IF op = "write_json_basis" THEN sort_basis_dict(doc) ELSE sort_references_dict(doc)

\* C5 (as claimed; violated): after write_json_basis(p, d) of a basis document d,
\* read_json_basis(p) succeeds and returns a document equal to sort_basis(d).
C5_RoundTrip ==
    (/\ ret.op = "read_json_basis"
     /\ last[ret.path].state = "done"
     /\ last[ret.path].op = "write_json_basis"
     /\ HasMarkerKey(last[ret.path].doc))
        => /\ ret.out.exc = "none"
           /\ PyEq(ret.out.val, sort_basis_dict(last[ret.path].doc))

\* C7 (as claimed; violated): a document written through the same write entry point to
\* two paths that differ only by the '.bz2' suffix reads back, through the matching read
\* entry point, as the same document from both.
C7_CompressionTransparent ==
    (/\ last[PLAIN_PATH].state = "done"
     /\ last[BZ2_PATH].state = "done"
     /\ last[PLAIN_PATH].op = last[BZ2_PATH].op
     /\ last[PLAIN_PATH].doc = last[BZ2_PATH].doc
     /\ HasMarkerKey(last[PLAIN_PATH].doc))
        => LET plain == _read_plain_json(PLAIN_PATH, TRUE)
               packed == _read_plain_json(BZ2_PATH, TRUE)
           IN  /\ plain.exc = "none"
               /\ packed.exc = "none"
               /\ PyEq(plain.val, packed.val)

\* C9 (as claimed; violated): once write calls on p have completed, p holds exactly the
\* canonical serialization (UTF-8, 2-space indent, compressed under '.bz2') of the sort
\* transform of the document of the last call, and nothing of what it held before.
C9_LastWriteWins ==
    \A p \in Paths :
        last[p].state = "done"
            => fs[p] = File(StoredForm(p, SortOf(last[p].op, last[p].doc)))

\* The bytes of the complete serialization a write call is producing.
NewText(p) == UTF8(dumps(SortOf(last[p].op, last[p].doc)))

\* C10: a write is not atomic.  From the moment a write entry point has opened its
\* destination until it has closed it - also when it is stopped in between - the
\* destination holds a strict prefix of the new serialization (nothing yet, under
\* '.bz2'), and a read entry point run on the path returns no document, old or new:
\* it fails on the torn content (MalformedDataError when the content reads as text).
C10_TornWrite ==
    \A p \in Paths :
        last[p].state = "torn"
            => /\ fs[p].kind = "file"
               /\ IsPrefix(fs[p].data, NewText(p))
               /\ fs[p].data # NewText(p)
               /\ (ret.op \in ReadOps /\ ret.path = p)
                     => \/ IsMalformed(ret.out)
                        \/ ret.out.exc \in {"UnicodeDecodeError", "EOFError"}

\* C10 witness: write_json_basis over an existing document was stopped with part of the
\* serialization in the file, and read_json_basis has then raised MalformedDataError.
C10_Witness ==
    /\ last[PLAIN_PATH].state = "torn"
    /\ wr.phase = "idle"
    /\ fs[PLAIN_PATH].data # <<>>
    /\ ret.op = "read_json_basis"
    /\ ret.path = PLAIN_PATH
    /\ IsMalformed(ret.out)

(***************************************************************************)
(* get_all_filelist(data_dir).  A path is the sequence of its components;  *)
(* tree holds every file under data_dir as <<directory, basename>>, the    *)
(* directory relative to data_dir.                                         *)
(***************************************************************************)
\* a.element.json
N_ELEMENT == <<97, 46, 101, 108, 101, 109, 101, 110, 116, 46, 106, 115, 111, 110>>
\* b.table.json
N_TABLE == <<98, 46, 116, 97, 98, 108, 101, 46, 106, 115, 111, 110>>
\* c.metadata.json
N_META == <<99, 46, 109, 101, 116, 97, 100, 97, 116, 97, 46, 106, 115, 111, 110>>
\* d.json
N_COMPONENT == <<100, 46, 106, 115, 111, 110>>
\* METADATA.json
N_METADATA == <<77, 69, 84, 65, 68, 65, 84, 65, 46, 106, 115, 111, 110>>
\* REFERENCES.json
N_REFERENCES == <<82, 69, 70, 69, 82, 69, 78, 67, 69, 83, 46, 106, 115, 111, 110>>
\* metadata.json
N_LOWER == <<109, 101, 116, 97, 100, 97, 116, 97, 46, 106, 115, 111, 110>>
\* x.table.metadata.json
N_TWO == <<120, 46, 116, 97, 98, 108, 101, 46, 109, 101, 116, 97, 100, 97, 116, 97, 46,
           106, 115, 111, 110>>
\* d.notes
N_NOTES == <<100, 46, 110, 111, 116, 101, 115>>
\* d.json.bz2
N_PACKED == <<100, 46, 106, 115, 111, 110, 46, 98, 122, 50>>

Basenames == {N_ELEMENT, N_TABLE, N_META, N_COMPONENT, N_METADATA, N_REFERENCES,
              N_LOWER, N_TWO, N_NOTES, N_PACKED}

\* data_dir 'data'; below it 'sub' and 'sub/deep'
DATA_DIR == << <<100, 97, 116, 97>> >>
SUB == << <<115, 117, 98>> >>
DEEP == SUB \o << <<100, 101, 101, 112>> >>
Dirs == {<<>>, SUB, DEEP}

\* special = ['METADATA.json', 'REFERENCES.json']
special == {N_METADATA, N_REFERENCES}

\* .metadata.json, .table.json, .element.json, .json
S_META == <<46, 109, 101, 116, 97, 100, 97, 116, 97, 46, 106, 115, 111, 110>>
S_TABLE == <<46, 116, 97, 98, 108, 101, 46, 106, 115, 111, 110>>
S_ELEMENT == <<46, 101, 108, 101, 109, 101, 110, 116, 46, 106, 115, 111, 110>>
S_JSON == <<46, 106, 115, 111, 110>>

\* The chain with the '.json' test first: every JSON file is a component file
ClassifyJsonFirst(basename) ==
    IF endswith(basename, S_JSON) THEN "all_component"
    ELSE IF endswith(basename, S_META) THEN "all_meta"
    ELSE IF endswith(basename, S_TABLE) THEN "all_table"
    ELSE IF endswith(basename, S_ELEMENT) THEN "all_element"
    ELSE "none"

\* The if / elif chain on the basename: the list the path is appended to
Classify(basename) ==
    IF endswith(basename, S_META) THEN "all_meta"
    ELSE IF endswith(basename, S_TABLE) THEN "all_table"
    ELSE IF endswith(basename, S_ELEMENT) THEN "all_element"
    ELSE IF endswith(basename, S_JSON) THEN "all_component"
    ELSE "none"

\* os.path.join(root, basename)
join(root, basename) == Append(root, basename)

\* os.path.relpath(path, start), start above path
relpath(path, start) == SubSeq(path, Len(start) + 1, Len(path))

\* The directories os.walk meets directly under a directory, and the files in one.
SubDirs(dir) ==
    {SubSeq(f[1], 1, Len(dir) + 1) : f \in {g \in tree : Len(g[1]) > Len(dir) /\ IsPrefix(dir, g[1])}}
FilesIn(dir) == {f[2] : f \in {g \in tree : g[1] = dir}}

\* The orders a directory listing may come in.
Orders(S) == {q \in [1..Cardinality(S) -> S] : \A i, j \in 1..Cardinality(S) : q[i] = q[j] => i = j}

\* get_all_filelist(data_dir): the four lists are empty and os.walk starts at data_dir
get_all_filelist ==
    /\ walk.pc = "idle"
    /\ walk' = [NoWalk EXCEPT !.pc = "walk", !.todo = << <<>> >>]
    /\ ret' = [op |-> "get_all_filelist", path |-> <<>>, out |-> Running]
    /\ UNCHANGED <<locale, fs, wr, last, tree>>

\* for root, dirs, files in os.walk(data_dir): the next directory, top down
WalkNext ==
    /\ walk.pc = "walk"
    /\ walk.files = {}
    /\ walk.todo # <<>>
    /\ \E order \in Orders(SubDirs(Head(walk.todo))) :
          walk' = [walk EXCEPT !.root = DATA_DIR \o Head(walk.todo),
                               !.files = FilesIn(Head(walk.todo)),
                               !.todo = order \o Tail(walk.todo)]
    /\ UNCHANGED <<locale, fs, wr, last, ret, tree>>

\* for basename in files: the body of the loop, for the next name of the listing
VisitFile(basename) ==
    /\ walk.pc = "walk"
    /\ basename \in walk.files
    /\ LET fpath == relpath(join(walk.root, basename), DATA_DIR)
           list  == IF basename \in special THEN "none" ELSE Classify(basename)
       IN  walk' = [walk EXCEPT
               !.files = @ \ {basename},
               !.all_meta = IF list = "all_meta" THEN Append(@, fpath) ELSE @,
               !.all_table = IF list = "all_table" THEN Append(@, fpath) ELSE @,
               !.all_element = IF list = "all_element" THEN Append(@, fpath) ELSE @,
               !.all_component = IF list = "all_component" THEN Append(@, fpath) ELSE @]
    /\ UNCHANGED <<locale, fs, wr, last, ret, tree>>

\* return (all_meta, all_table, all_element, all_component)
WalkReturn ==
    /\ walk.pc = "walk"
    /\ walk.files = {}
    /\ walk.todo = <<>>
    /\ walk' = [walk EXCEPT !.pc = "done"]
    /\ ret' = [op |-> "get_all_filelist", path |-> <<>>, out |-> Returned("tuple", JNull, <<>>)]
    /\ UNCHANGED <<locale, fs, wr, last, tree>>

\* The tuple returned.
Result == <<walk.all_meta, walk.all_table, walk.all_element, walk.all_component>>

\* The trees of at most n files.
RECURSIVE TreesUpTo(_)
TreesUpTo(n) ==
    IF n = 0 THEN {{}}
    ELSE LET smaller == TreesUpTo(n - 1)
         IN  smaller \cup {t \cup {f} : t \in smaller, f \in Dirs \X Basenames}

InitWalk ==
    /\ locale = "utf-8"
    /\ fs = [p \in Paths |-> Absent]
    /\ wr = NoWrite
    /\ last = [p \in Paths |-> NoHistory]
    /\ ret = NoCall
    /\ tree \in TreesUpTo(MaxFiles)
    /\ walk = NoWalk

NextWalk ==
    \/ get_all_filelist
    \/ WalkNext
    \/ \E b \in Basenames : VisitFile(b)
    \/ WalkReturn

SpecWalk == InitWalk /\ [][NextWalk]_vars

(***************************************************************************)
(* Claim on the directory classifier (SpecWalk).                           *)
(***************************************************************************)
\* The category a name belongs to by the first matching suffix, in the order
\* metadata (1), table (2), element (3), component (4); 0 when none matches.
CategoryOf(basename) ==
    IF \E i \in 1..4 : endswith(basename, <<S_META, S_TABLE, S_ELEMENT, S_JSON>>[i])
    THEN CHOOSE i \in 1..4 :
            /\ endswith(basename, <<S_META, S_TABLE, S_ELEMENT, S_JSON>>[i])
            /\ \A j \in 1..(i - 1) : ~endswith(basename, <<S_META, S_TABLE, S_ELEMENT, S_JSON>>[j])
    ELSE 0

Count(list, x) == Cardinality({i \in 1..Len(list) : list[i] = x})

\* C6: when get_all_filelist has returned, for every file at any depth under the root:
\* a file named exactly 'METADATA.json' or 'REFERENCES.json' is in no list; any other
\* file has its root-relative path exactly once in the list of the first suffix it
\* matches among '.metadata.json', '.table.json', '.element.json', '.json' - the lists
\* being returned in that order - and in no other list; a file matching none is in no
\* list.  The lists hold nothing else, so they are pairwise disjoint.
C6_Classifier ==
    walk.pc = "done"
        => /\ \A f \in tree : \A k \in 1..4 :
                 Count(Result[k], Append(f[1], f[2])) =
                     IF f[2] \notin special /\ CategoryOf(f[2]) = k THEN 1 ELSE 0
           /\ \A k \in 1..4 : \A i \in 1..Len(Result[k]) :
                 \E f \in tree : Result[k][i] = Append(f[1], f[2])
           /\ \A k, m \in 1..4 : \A i \in 1..Len(Result[k]) : \A j \in 1..Len(Result[m]) :
                 Result[k][i] = Result[m][j] => k = m

\* C6 witness: the walk has returned with 'sub/deep/x.table.metadata.json' as the one
\* metadata file, and nothing for the 'METADATA.json' beside it.
C6_Witness ==
    /\ walk.pc = "done"
    /\ tree = {<<DEEP, N_TWO>>, <<DEEP, N_METADATA>>}
    /\ Result = << <<Append(DEEP, N_TWO)>>, <<>>, <<>>, <<>> >>
====
